---- MODULE Spec2Model ----
(***************************************************************************)
(* The CBS authentication state machine of the AMQP transport              *)
(* (iothubtransportamqp_auth.c): one AUTHENTICATION_STATE driven by        *)
(* authentication_start / authentication_do_work / authentication_stop and *)
(* by the completions of the cbs_put_token / cbs_delete_token requests it  *)
(* has dispatched.                                                         *)
(***************************************************************************)
EXTENDS Integers, Sequences, FiniteSets, TLC

\* ------------------------------------------------------------------ bounds
\* The clock runs over 0..MaxTime seconds.
MaxTime == 2
\* The CBS layer refuses a request while MaxPending requests are outstanding.
MaxPending == 2

\* --------------------------------------------------------------- constants
RESULT_OK == 0
\* Every failing return is "result = __LINE__": some non-zero int.
FAILURE == 1
NULL == 0
INDEFINITE_TIME == -1
SAS_TOKEN_TYPE == "servicebus.windows.net:sastoken"

\* A valid CBS_HANDLE, the status-change observer a caller may register, and
\* the stop-completed observer (with its context) a caller may pass to stop.
CBS_INSTANCE == 1
\* The block malloc() returns to authentication_create.
AUTHENTICATION_INSTANCE == 1
STATUS_OBSERVER == 1
STOP_OBSERVER == 1

\* A never-assigned pointer or integer holds whatever malloc() left there.
INDETERMINATE_POINTER == -1
IndeterminatePointers == {NULL, INDETERMINATE_POINTER}
IndeterminateInts == {RESULT_OK, FAILURE}
IndeterminateTimes == {1}

\* sas_token_lifetime, sas_token_refresh_time and cbs_request_timeout
\* (milliseconds) are never assigned by authentication_create or
\* authentication_set_option: they hold whatever malloc() left there.  Two
\* such records are followed.
IndeterminateOptions ==
    {[sas_token_lifetime |-> 4000, sas_token_refresh_time |-> 1000,
      cbs_request_timeout |-> 1500],
     [sas_token_lifetime |-> 3000, sas_token_refresh_time |-> 2500,
      cbs_request_timeout |-> 1000]}

NONE == "NONE"
IDLE == "IDLE"
STARTED == "STARTED"
AUTHENTICATING == "AUTHENTICATING"
AUTHENTICATED == "AUTHENTICATED"
REFRESHING == "REFRESHING"
DEAUTHENTICATING == "DEAUTHENTICATING"
FAILED == "FAILED"
FAILED_TIMEOUT == "FAILED_TIMEOUT"

AUTHENTICATION_STATUS ==
    {NONE, IDLE, STARTED, AUTHENTICATING, AUTHENTICATED, REFRESHING,
     DEAUTHENTICATING, FAILED, FAILED_TIMEOUT}

CREDENTIAL_TYPE_NONE == "NONE"
CREDENTIAL_TYPE_X509 == "X509"
CREDENTIAL_TYPE_DEVICE_KEY == "DEVICE_KEY"
CREDENTIAL_TYPE_DEVICE_SAS_TOKEN == "DEVICE_SAS_TOKEN"

CBS_OPERATION_RESULT_OK == "CBS_OPERATION_RESULT_OK"
CBS_OPERATION_RESULT ==
    {CBS_OPERATION_RESULT_OK, "CBS_OPERATION_RESULT_CBS_ERROR",
     "CBS_OPERATION_RESULT_OPERATION_FAILED"}

\* The status code and description CBS hands to a completion.
CbsStatus == {<<200, "OK">>, <<401, "Unauthorized">>}

DELETE_SAS_TOKEN_RESULT_SUCCESS == "DELETE_SAS_TOKEN_RESULT_SUCCESS"
DELETE_SAS_TOKEN_RESULT_ERROR == "DELETE_SAS_TOKEN_RESULT_ERROR"

\* ------------------------------------------------------------------- state
VARIABLES
    auth_state,  \* the AUTHENTICATION_STATE record
    pending,     \* CBS requests dispatched successfully, completion not yet delivered
    now,         \* the wall clock, seconds since epoch
    last,        \* the last call: its name, arguments, return value, the record
                 \* and the outstanding requests before it, the calls it made
                 \* out (in order) and the statuses it assigned (in order,
                 \* starting with the one it found)
    reports,     \* how often the caller's stop observer has been invoked since
                 \* it was last passed to stop
    idled        \* whether the stop call it was last passed to found Failed
                 \* (and so returned the session to Idle itself)

vars == <<auth_state, pending, now, last, reports, idled>>

\* One call made out of the module: an observer, the clock, an allocation, CBS.
Call(f, x, y, n) == [f |-> f, x |-> x, y |-> y, n |-> n]

\* The running call: the record, the outstanding requests, the calls made so
\* far, the statuses assigned so far, and the C function's `result`.
Enter ==
    [a |-> auth_state, pending |-> pending, calls |-> <<>>,
     trail |-> <<auth_state.status>>, result |-> RESULT_OK]

Logged(m, c) == [m EXCEPT !.calls = Append(@, c)]

Returning(m, r) == [m EXCEPT !.result = r]

\* ------------------------------------------------------- static functions
getSecondsSinceEpoch(current_time) ==
    IF current_time = INDEFINITE_TIME
    THEN [result |-> FAILURE, seconds |-> 0]
    ELSE [result |-> RESULT_OK, seconds |-> current_time]

\* update_status without its comparison of the old and the new status.
update_status_unconditional(m, new_status) ==
    LET old_status == m.a.status
        m1 == [m EXCEPT !.a.status = new_status, !.trail = Append(@, new_status)]
    IN  IF m.a.on_status_changed_callback # NULL
        THEN Logged(m1, Call("on_status_changed", old_status, new_status,
                             m.a.on_status_changed_callback))
        ELSE m1

update_status(m, new_status) ==
    IF m.a.status # new_status
    THEN LET old_status == m.a.status
             m1 == [m EXCEPT !.a.status = new_status,
                             !.trail = Append(@, new_status)]
         IN  IF m.a.on_status_changed_callback # NULL
             THEN Logged(m1, Call("on_status_changed", old_status, new_status,
                                  m.a.on_status_changed_callback))
             ELSE m1
    ELSE m

\* on_put_token_complete deciding by the status code.
on_put_token_complete_by_status_code(m, operation_result, status_code, status_description) ==
    IF status_code = 200
    THEN update_status(m, AUTHENTICATED)
    ELSE update_status(m, FAILED)

\* status_code and status_description are only logged.
on_put_token_complete(m, operation_result, status_code, status_description) ==
    IF operation_result = CBS_OPERATION_RESULT_OK
    THEN update_status(m, AUTHENTICATED)
    ELSE update_status(m, FAILED)

\* on_delete_token_complete applying the transition before it reports to the
\* stop observer.
on_delete_token_complete_status_first(m, operation_result) ==
    LET ok == operation_result = CBS_OPERATION_RESULT_OK
        m1 == IF ok THEN [m EXCEPT !.a.current_sas_token_create_time = 0] ELSE m
        m2 == update_status(m1, IF ok THEN IDLE ELSE FAILED)
    IN  IF m2.a.on_stop_completed_callback # NULL
        THEN [Logged(m2, Call("on_stop_completed",
                              IF ok THEN DELETE_SAS_TOKEN_RESULT_SUCCESS
                                    ELSE DELETE_SAS_TOKEN_RESULT_ERROR,
                              "", m2.a.on_stop_completed_callback))
              EXCEPT !.a.on_stop_completed_callback = NULL]
        ELSE m2

on_delete_token_complete(m, operation_result) ==
    LET ok == operation_result = CBS_OPERATION_RESULT_OK
        m1 == IF ok THEN [m EXCEPT !.a.current_sas_token_create_time = 0] ELSE m
        result == IF ok THEN DELETE_SAS_TOKEN_RESULT_SUCCESS
                        ELSE DELETE_SAS_TOKEN_RESULT_ERROR
        new_status == IF ok THEN IDLE ELSE FAILED
        m2 == IF m1.a.on_stop_completed_callback # NULL
              THEN [Logged(m1, Call("on_stop_completed", result, "",
                                    m1.a.on_stop_completed_callback))
                    EXCEPT !.a.on_stop_completed_callback = NULL]
              ELSE m1
    IN  update_status(m2, new_status)

\* The outstanding requests are kept in one order (put_token first, then
\* delete_token by the stop call they come from): completions are delivered
\* in any order, so the order of dispatch carries nothing.
Outstanding(requests, r) ==
    LET before == SelectSeq(requests, LAMBDA q : q.op = "put_token" \/
                                (r.op = "delete_token" /\ q.stop <= r.stop))
        after == SelectSeq(requests, LAMBDA q : ~(q.op = "put_token" \/
                                (r.op = "delete_token" /\ q.stop <= r.stop)))
    IN  before \o <<r>> \o after

\* cbs_put_token: the request is accepted (and is then outstanding) or refused.
cbs_put_token(m, type, audience, token, accepted) ==
    IF accepted /\ Len(m.pending) < MaxPending
    THEN Returning(
            [Logged(m, Call("cbs_put_token", "accepted", type, 0))
             EXCEPT !.pending = Outstanding(@, [op |-> "put_token", audience |-> audience,
                                               type |-> type, token |-> token,
                                               stop |-> 0])],
            RESULT_OK)
    ELSE Returning(Logged(m, Call("cbs_put_token", "refused", type, 0)), FAILURE)

\* cbs_delete_token, likewise; `stop` is the callback context of the stop
\* call that dispatched it.
cbs_delete_token(m, audience, type, accepted, stop) ==
    IF accepted /\ Len(m.pending) < MaxPending
    THEN Returning(
            [Logged(m, Call("cbs_delete_token", "accepted", type, 0))
             EXCEPT !.pending = Outstanding(@, [op |-> "delete_token", audience |-> audience,
                                               type |-> type, token |-> <<>>,
                                               stop |-> stop])],
            RESULT_OK)
    ELSE Returning(Logged(m, Call("cbs_delete_token", "refused", type, 0)), FAILURE)

handSASTokenToCbs(m, cbs_audience, sasToken, current_time_in_sec_since_epoch, e) ==
    LET m1 == cbs_put_token(m, SAS_TOKEN_TYPE, cbs_audience, sasToken, e.put_ok)
    IN  IF m1.result # RESULT_OK
        THEN Returning(m1, FAILURE)
        ELSE Returning(
                [m1 EXCEPT !.a.current_sas_token_put_time = current_time_in_sec_since_epoch],
                RESULT_OK)

\* verifyAuthenticationTimeout comparing whole seconds with the timeout
\* rounded down to seconds.
verifyAuthenticationTimeout_in_seconds(a, current_time) ==
    LET t == getSecondsSinceEpoch(current_time)
    IN  IF t.result # RESULT_OK
        THEN [result |-> FAILURE, timeout_reached |-> TRUE]
        ELSE [result |-> RESULT_OK,
              timeout_reached |->
                  (t.seconds - a.current_sas_token_put_time)
                      >= a.cbs_request_timeout \div 1000]

\* timeout_reached and result of verifyAuthenticationTimeout
verifyAuthenticationTimeout(a, current_time) ==
    LET t == getSecondsSinceEpoch(current_time)
    IN  IF t.result # RESULT_OK
        THEN [result |-> FAILURE, timeout_reached |-> TRUE]
        ELSE [result |-> RESULT_OK,
              timeout_reached |->
                  (t.seconds - a.current_sas_token_put_time) * 1000 >= a.cbs_request_timeout]

\* isSasTokenRefreshRequired finding every device-key token due.
isSasTokenRefreshRequired_always(a, current_time) ==
    a.credential_type # CREDENTIAL_TYPE_DEVICE_SAS_TOKEN

\* isSasTokenRefreshRequired with > for >=.
isSasTokenRefreshRequired_late(a, current_time) ==
    IF a.credential_type = CREDENTIAL_TYPE_DEVICE_SAS_TOKEN
    THEN FALSE
    ELSE LET t == getSecondsSinceEpoch(current_time)
         IN  IF t.result # RESULT_OK
             THEN TRUE
             ELSE (t.seconds - a.current_sas_token_create_time)
                      > (a.sas_token_refresh_time \div 1000)

isSasTokenRefreshRequired(a, current_time) ==
    IF a.credential_type = CREDENTIAL_TYPE_DEVICE_SAS_TOKEN
    THEN FALSE
    ELSE LET t == getSecondsSinceEpoch(current_time)
         IN  IF t.result # RESULT_OK
             THEN TRUE
             ELSE (t.seconds - a.current_sas_token_create_time)
                      >= (a.sas_token_refresh_time \div 1000)

\* create_devices_path printing its second parameter first.
create_devices_path_second_first(device_id, iot_hub_host_fqdn, allocated) ==
    IF allocated THEN <<iot_hub_host_fqdn, "/devices/", device_id>> ELSE <<>>

\* "%s/devices/%s" of (device_id, iot_hub_host_fqdn); <<>> is the NULL handle.
create_devices_path(device_id, iot_hub_host_fqdn, allocated) ==
    IF allocated THEN <<device_id, "/devices/", iot_hub_host_fqdn>> ELSE <<>>

\* The token SASToken_Create signs with `key` for `scope` until `expiry`.
SASToken_Create(key, scope, expiry) ==
    <<"SharedAccessSignature", scope, key, expiry>>

authenticate_device(m, e) ==
    LET t == getSecondsSinceEpoch(e.time2)
        m0 == Logged(m, Call("get_time", IF t.result = RESULT_OK THEN "ok" ELSE "failed", "", 0))
        devices_path == create_devices_path(m.a.iot_hub_host_fqdn, m.a.device_id, e.path_ok)
        new_expiry_time == t.seconds + (m.a.sas_token_lifetime \div 1000)
        newSASToken == SASToken_Create(m.a.deviceKey, devices_path, new_expiry_time)
        mp == Logged(m0, Call("create_devices_path",
                              IF devices_path # <<>> THEN "ok" ELSE "failed", "", 0))
    IN  CASE m.a.credential_type = CREDENTIAL_TYPE_DEVICE_KEY ->
               IF t.result # RESULT_OK
               THEN Returning(m0, FAILURE)
               ELSE IF devices_path = <<>>
               THEN Returning(mp, FAILURE)
               ELSE IF ~e.token_ok
               THEN Returning(Logged(mp, Call("SASToken_Create", "failed", "", 0)), FAILURE)
               ELSE LET m1 == Logged(mp, Call("SASToken_Create", "ok", "", 0))
                        m2 == [m1 EXCEPT !.a.current_sas_token_create_time = t.seconds]
                        m3 == update_status(m2, AUTHENTICATING)
                        m4 == handSASTokenToCbs(m3, devices_path, newSASToken, t.seconds, e)
                    IN  IF m4.result # RESULT_OK
                        THEN Returning(update_status(m4, FAILED), FAILURE)
                        ELSE Returning(m4, RESULT_OK)
          [] m.a.credential_type = CREDENTIAL_TYPE_DEVICE_SAS_TOKEN ->
               IF t.result # RESULT_OK
               THEN Returning(m0, FAILURE)
               ELSE LET m1 == update_status(m0, AUTHENTICATING)
                        m2 == Logged(m1, Call("create_devices_path",
                                  IF devices_path # <<>> THEN "ok" ELSE "failed", "", 0))
                    IN  IF devices_path = <<>>
                        THEN Returning(update_status(m2, FAILED), FAILURE)
                        ELSE LET m3 == handSASTokenToCbs(m2, devices_path,
                                                         m2.a.deviceSasToken, t.seconds, e)
                             IN  IF m3.result # RESULT_OK
                                 THEN Returning(update_status(m3, FAILED), FAILURE)
                                 ELSE Returning(m3, RESULT_OK)
          [] OTHER -> Returning(m, FAILURE)

\* ------------------------------------------------------------ module APIs
\* authentication_do_work refreshing a token of any credential type when it
\* is older than the refresh time.
authentication_do_work_any_credential(m, e) ==
    IF m.a.status = NONE \/ m.a.status = IDLE
    THEN Returning(m, FAILURE)
    ELSE LET refresh == /\ m.a.status = AUTHENTICATED
                        /\ \/ e.time1 = INDEFINITE_TIME
                           \/ (e.time1 - m.a.current_sas_token_create_time)
                                  >= (m.a.sas_token_refresh_time \div 1000)
             mr == IF m.a.status = AUTHENTICATED
                   THEN Logged(m, Call("get_time",
                            IF e.time1 # INDEFINITE_TIME THEN "ok" ELSE "failed", "", 0))
                   ELSE m
             m1 == IF refresh THEN update_status(mr, REFRESHING) ELSE mr
         IN  IF m1.a.status = STARTED \/ m1.a.status = REFRESHING
             THEN LET m2 == authenticate_device(m1, e)
                  IN  IF m2.result # RESULT_OK
                      THEN Returning(m2, FAILURE)
                      ELSE Returning(m2, e.indeterminate)
             ELSE IF m1.a.status = AUTHENTICATING
             THEN LET v == verifyAuthenticationTimeout(m1.a, e.time1)
                      m2 == Logged(m1, Call("get_time",
                                IF v.result = RESULT_OK THEN "ok" ELSE "failed", "", 0))
                  IN  IF v.result # RESULT_OK
                      THEN Returning(update_status(m2, FAILED), e.indeterminate)
                      ELSE IF v.timeout_reached
                      THEN Returning(update_status(m2, FAILED_TIMEOUT), e.indeterminate)
                      ELSE Returning(m2, e.indeterminate)
             ELSE Returning(m1, e.indeterminate)

\* authentication_do_work without its check that the session was started.
authentication_do_work_unstarted(m, e) ==
    LET refresh == /\ m.a.status = AUTHENTICATED
                   /\ m.a.credential_type = CREDENTIAL_TYPE_DEVICE_KEY
                   /\ isSasTokenRefreshRequired(m.a, e.time1)
        mr == IF m.a.status = AUTHENTICATED
                 /\ m.a.credential_type = CREDENTIAL_TYPE_DEVICE_KEY
              THEN Logged(m, Call("get_time",
                       IF e.time1 # INDEFINITE_TIME THEN "ok" ELSE "failed", "", 0))
              ELSE m
        m1 == IF refresh THEN update_status(mr, REFRESHING) ELSE mr
    IN  IF m1.a.status = STARTED \/ m1.a.status = REFRESHING
        THEN LET m2 == authenticate_device(m1, e)
             IN  IF m2.result # RESULT_OK
                 THEN Returning(m2, FAILURE)
                 ELSE Returning(m2, e.indeterminate)
        ELSE IF m1.a.status = AUTHENTICATING
        THEN LET v == verifyAuthenticationTimeout(m1.a, e.time1)
                 m2 == Logged(m1, Call("get_time",
                           IF v.result = RESULT_OK THEN "ok" ELSE "failed", "", 0))
             IN  IF v.result # RESULT_OK
                 THEN Returning(update_status(m2, FAILED), e.indeterminate)
                 ELSE IF v.timeout_reached
                 THEN Returning(update_status(m2, FAILED_TIMEOUT), e.indeterminate)
                 ELSE Returning(m2, e.indeterminate)
        ELSE Returning(m1, e.indeterminate)

\* `result` is declared without a value: a path that never assigns it
\* returns e.indeterminate.
authentication_do_work(m, e) ==
    IF m.a.status = NONE \/ m.a.status = IDLE
    THEN Returning(m, FAILURE)
    ELSE LET refresh == /\ m.a.status = AUTHENTICATED
                        /\ m.a.credential_type = CREDENTIAL_TYPE_DEVICE_KEY
                        /\ isSasTokenRefreshRequired(m.a, e.time1)
             mr == IF m.a.status = AUTHENTICATED
                      /\ m.a.credential_type = CREDENTIAL_TYPE_DEVICE_KEY
                   THEN Logged(m, Call("get_time",
                            IF e.time1 # INDEFINITE_TIME THEN "ok" ELSE "failed", "", 0))
                   ELSE m
             m1 == IF refresh THEN update_status(mr, REFRESHING) ELSE mr
         IN  IF m1.a.status = STARTED \/ m1.a.status = REFRESHING
             THEN LET m2 == authenticate_device(m1, e)
                  IN  IF m2.result # RESULT_OK
                      THEN Returning(m2, FAILURE)
                      ELSE Returning(m2, e.indeterminate)
             ELSE IF m1.a.status = AUTHENTICATING
             THEN LET v == verifyAuthenticationTimeout(m1.a, e.time1)
                      m2 == Logged(m1, Call("get_time",
                                IF v.result = RESULT_OK THEN "ok" ELSE "failed", "", 0))
                  IN  IF v.result # RESULT_OK
                      THEN Returning(update_status(m2, FAILED), e.indeterminate)
                      ELSE IF v.timeout_reached
                      THEN Returning(update_status(m2, FAILED_TIMEOUT), e.indeterminate)
                      ELSE Returning(m2, e.indeterminate)
             ELSE Returning(m1, e.indeterminate)

authentication_start(m, cbs_handle, on_status_changed) ==
    IF /\ m.a.credential_type \in {CREDENTIAL_TYPE_DEVICE_KEY, CREDENTIAL_TYPE_DEVICE_SAS_TOKEN}
       /\ cbs_handle = NULL
    THEN Returning(m, FAILURE)
    ELSE Returning(
            update_status([m EXCEPT !.a.cbs_handle = cbs_handle,
                                    !.a.on_status_changed_callback = on_status_changed],
                          STARTED),
            RESULT_OK)

\* authentication_stop leaving the stop callback in its slot when
\* cbs_delete_token refuses the request.
authentication_stop_keeps_callback(m, on_stop_completed, e) ==
    IF m.a.credential_type \in {CREDENTIAL_TYPE_DEVICE_KEY, CREDENTIAL_TYPE_DEVICE_SAS_TOKEN}
    THEN IF m.a.status = FAILED
         THEN Returning(
                 [update_status(m, IDLE) EXCEPT !.a.on_status_changed_callback = NULL],
                 RESULT_OK)
         ELSE IF m.a.status # AUTHENTICATED /\ m.a.status # AUTHENTICATING
         THEN Returning(m, FAILURE)
         ELSE LET devices_path ==
                      create_devices_path(m.a.iot_hub_host_fqdn, m.a.device_id, e.path_ok)
                  mp == Logged(m, Call("create_devices_path",
                                  IF devices_path # <<>> THEN "ok" ELSE "failed", "", 0))
              IN  IF devices_path = <<>>
                  THEN Returning(mp, FAILURE)
                  ELSE LET m1 == [mp EXCEPT !.a.on_stop_completed_callback = on_stop_completed]
                           m2 == update_status(m1, DEAUTHENTICATING)
                           m3 == cbs_delete_token(m2, devices_path, SAS_TOKEN_TYPE,
                                                  e.delete_ok, on_stop_completed)
                       IN  IF m3.result # RESULT_OK
                           THEN Returning(update_status(m3, FAILED), FAILURE)
                           ELSE Returning(m3, RESULT_OK)
    ELSE Returning(m, FAILURE)

\* authentication_stop without its check of the status: whatever is not
\* Failed is treated as Authenticated or Authenticating.
authentication_stop_any_status(m, on_stop_completed, e) ==
    IF m.a.credential_type \in {CREDENTIAL_TYPE_DEVICE_KEY, CREDENTIAL_TYPE_DEVICE_SAS_TOKEN}
    THEN IF m.a.status = FAILED
         THEN Returning(
                 [update_status(m, IDLE) EXCEPT !.a.on_status_changed_callback = NULL],
                 RESULT_OK)
         ELSE LET devices_path ==
                      create_devices_path(m.a.iot_hub_host_fqdn, m.a.device_id, e.path_ok)
                  mp == Logged(m, Call("create_devices_path",
                                  IF devices_path # <<>> THEN "ok" ELSE "failed", "", 0))
              IN  IF devices_path = <<>>
                  THEN Returning(mp, FAILURE)
                  ELSE LET m1 == [mp EXCEPT !.a.on_stop_completed_callback = on_stop_completed]
                           m2 == update_status(m1, DEAUTHENTICATING)
                           m3 == cbs_delete_token(m2, devices_path, SAS_TOKEN_TYPE,
                                                  e.delete_ok, on_stop_completed)
                       IN  IF m3.result # RESULT_OK
                           THEN Returning(
                                   update_status(
                                       [m3 EXCEPT !.a.on_stop_completed_callback = NULL],
                                       FAILED),
                                   FAILURE)
                           ELSE Returning(m3, RESULT_OK)
    ELSE Returning(m, FAILURE)

\* authentication_stop leaving the status observer registered when it
\* returns a Failed session to Idle.
authentication_stop_keeps_observer(m, on_stop_completed, e) ==
    IF m.a.credential_type \in {CREDENTIAL_TYPE_DEVICE_KEY, CREDENTIAL_TYPE_DEVICE_SAS_TOKEN}
    THEN IF m.a.status = FAILED
         THEN Returning(update_status(m, IDLE), RESULT_OK)
         ELSE IF m.a.status # AUTHENTICATED /\ m.a.status # AUTHENTICATING
         THEN Returning(m, FAILURE)
         ELSE LET devices_path ==
                      create_devices_path(m.a.iot_hub_host_fqdn, m.a.device_id, e.path_ok)
                  mp == Logged(m, Call("create_devices_path",
                                  IF devices_path # <<>> THEN "ok" ELSE "failed", "", 0))
              IN  IF devices_path = <<>>
                  THEN Returning(mp, FAILURE)
                  ELSE LET m1 == [mp EXCEPT !.a.on_stop_completed_callback = on_stop_completed]
                           m2 == update_status(m1, DEAUTHENTICATING)
                           m3 == cbs_delete_token(m2, devices_path, SAS_TOKEN_TYPE,
                                                  e.delete_ok, on_stop_completed)
                       IN  IF m3.result # RESULT_OK
                           THEN Returning(
                                   update_status(
                                       [m3 EXCEPT !.a.on_stop_completed_callback = NULL],
                                       FAILED),
                                   FAILURE)
                           ELSE Returning(m3, RESULT_OK)
    ELSE Returning(m, FAILURE)

authentication_stop(m, on_stop_completed, e) ==
    IF m.a.credential_type \in {CREDENTIAL_TYPE_DEVICE_KEY, CREDENTIAL_TYPE_DEVICE_SAS_TOKEN}
    THEN IF m.a.status = FAILED
         THEN Returning(
                 [update_status(m, IDLE) EXCEPT !.a.on_status_changed_callback = NULL],
                 RESULT_OK)
         ELSE IF m.a.status # AUTHENTICATED /\ m.a.status # AUTHENTICATING
         THEN Returning(m, FAILURE)
         ELSE LET devices_path ==
                      create_devices_path(m.a.iot_hub_host_fqdn, m.a.device_id, e.path_ok)
                  mp == Logged(m, Call("create_devices_path",
                                  IF devices_path # <<>> THEN "ok" ELSE "failed", "", 0))
              IN  IF devices_path = <<>>
                  THEN Returning(mp, FAILURE)
                  ELSE LET m1 == [mp EXCEPT !.a.on_stop_completed_callback = on_stop_completed]
                           m2 == update_status(m1, DEAUTHENTICATING)
                           m3 == cbs_delete_token(m2, devices_path, SAS_TOKEN_TYPE,
                                                  e.delete_ok, on_stop_completed)
                       IN  IF m3.result # RESULT_OK
                           THEN Returning(
                                   update_status(
                                       [m3 EXCEPT !.a.on_stop_completed_callback = NULL],
                                       FAILED),
                                   FAILURE)
                           ELSE Returning(m3, RESULT_OK)
    ELSE Returning(m, FAILURE)

\* ----------------------------------------------------------------- actions
Return(op, x, n, m) ==
    /\ auth_state' = m.a
    /\ pending' = m.pending
    /\ last' = [op |-> op, x |-> x, n |-> n, ret |-> m.result, pre |-> auth_state,
                outstanding |-> pending, calls |-> m.calls, trail |-> m.trail]
    /\ reports' =
          (IF op = "stop" /\ n = STOP_OBSERVER THEN 0 ELSE reports)
          + Cardinality({i \in 1..Len(m.calls) :
                            /\ m.calls[i].f = "on_stop_completed"
                            /\ m.calls[i].n = STOP_OBSERVER})
    /\ idled' = IF op = "stop" /\ n = STOP_OBSERVER
                THEN auth_state.status = FAILED
                ELSE idled

\* The outcomes of the calls a tick makes out: get_time in the refresh or
\* timeout check (time1) and in authenticate_device (time2), the two
\* allocations, cbs_put_token, and the value an unassigned `result` holds.
\* An outcome of a call the tick does not reach is left at its default.
DoWorkEnv ==
    LET a == auth_state
        key == a.credential_type = CREDENTIAL_TYPE_DEVICE_KEY
        checks == \/ a.status = AUTHENTICATING
                  \/ a.status = AUTHENTICATED /\ key
        authenticates == \/ a.status \in {STARTED, REFRESHING}
                         \/ a.status = AUTHENTICATED /\ key
    IN  {e \in [time1 : {now, INDEFINITE_TIME}, time2 : {now, INDEFINITE_TIME},
                path_ok : BOOLEAN, token_ok : BOOLEAN, put_ok : BOOLEAN,
                indeterminate : IndeterminateInts] :
            /\ ~checks => e.time1 = now
            /\ ~authenticates => e.time2 = now
            /\ (~authenticates \/ e.time2 # now) => e.path_ok
            /\ (~key \/ ~e.path_ok) => e.token_ok
            /\ ~e.token_ok => e.put_ok
            /\ a.status \in {NONE, IDLE} => e.indeterminate = RESULT_OK}

StartWith(cbs_handle, on_status_changed) ==
    /\ Return("start", "", on_status_changed,
              authentication_start(Enter, cbs_handle, on_status_changed))
    /\ UNCHANGED now

Start ==
    \E cbs_handle \in {NULL, CBS_INSTANCE}, on_status_changed \in {NULL, STATUS_OBSERVER} :
        StartWith(cbs_handle, on_status_changed)

DoWorkWith(e) ==
    /\ Return("do_work", "", 0, authentication_do_work(Enter, e))
    /\ UNCHANGED now

DoWork == \E e \in DoWorkEnv : DoWorkWith(e)

\* The caller hands its stop observer to one stop call at a time: not while
\* it sits in the slot or an outstanding delete_token is to report to it.
StopObservers ==
    {NULL} \cup
    {k \in {STOP_OBSERVER} :
        /\ auth_state.on_stop_completed_callback # k
        /\ \A i \in 1..Len(pending) : pending[i].stop # k}

StopWith(on_stop_completed, e) ==
    /\ Return("stop", "", on_stop_completed,
              authentication_stop(Enter, on_stop_completed, e))
    /\ UNCHANGED now

\* The outcomes of the calls stop makes out: the allocation of the audience
\* string and cbs_delete_token; an outcome of a call it does not reach is
\* left at its default.
StopEnv ==
    {e \in [path_ok : BOOLEAN, delete_ok : BOOLEAN] :
        /\ auth_state.status \notin {AUTHENTICATED, AUTHENTICATING} => e.path_ok
        /\ ~e.path_ok => e.delete_ok
        /\ auth_state.status \notin {AUTHENTICATED, AUTHENTICATING} => e.delete_ok}

Stop == \E on_stop_completed \in StopObservers, e \in StopEnv :
            StopWith(on_stop_completed, e)

Without(s, i) == SubSeq(s, 1, i - 1) \o SubSeq(s, i + 1, Len(s))

PutTokenComplete ==
    \E i \in 1..Len(pending), operation_result \in CBS_OPERATION_RESULT,
       status \in CbsStatus :
        /\ pending[i].op = "put_token"
        /\ Return("on_put_token_complete", operation_result, status[1],
                  on_put_token_complete([Enter EXCEPT !.pending = Without(pending, i)],
                                        operation_result, status[1], status[2]))
        /\ UNCHANGED now

DeleteTokenComplete ==
    \E i \in 1..Len(pending), operation_result \in CBS_OPERATION_RESULT :
        /\ pending[i].op = "delete_token"
        /\ Return("on_delete_token_complete", operation_result, pending[i].stop,
                  on_delete_token_complete([Enter EXCEPT !.pending = Without(pending, i)],
                                           operation_result))
        /\ UNCHANGED now

\* The clock advances between calls; no call is running.
Tick ==
    /\ now < MaxTime
    /\ now' = now + 1
    /\ last' = [op |-> "tick", x |-> "", n |-> 0, ret |-> RESULT_OK, pre |-> auth_state,
                outstanding |-> pending, calls |-> <<>>, trail |-> <<auth_state.status>>]
    /\ UNCHANGED <<auth_state, pending, reports, idled>>

\* The record authentication_create returns for device "dev1" of hub
\* "hub.example.net" with a device key or a SAS token; a STRING_HANDLE is
\* <<>> (NULL) or <<the string>>.
Created ==
    {[device_id |-> "dev1", iot_hub_host_fqdn |-> "hub.example.net",
      credential_type |-> type,
      deviceKey |-> IF type = CREDENTIAL_TYPE_DEVICE_KEY THEN <<"KEY">> ELSE <<>>,
      deviceSasToken |-> IF type = CREDENTIAL_TYPE_DEVICE_SAS_TOKEN
                         THEN <<"SharedAccessSignature sr=dev1">> ELSE <<>>,
      sas_token_lifetime |-> o.sas_token_lifetime,
      sas_token_refresh_time |-> o.sas_token_refresh_time,
      cbs_request_timeout |-> o.cbs_request_timeout,
      cbs_handle |-> INDETERMINATE_POINTER,
      current_sas_token_create_time |-> 0,
      current_sas_token_put_time |-> put_time,
      status |-> NONE,
      on_status_changed_callback |-> NULL,
      on_stop_completed_callback |-> stop_callback] :
        type \in {CREDENTIAL_TYPE_DEVICE_KEY, CREDENTIAL_TYPE_DEVICE_SAS_TOKEN},
        o \in IndeterminateOptions,
        put_time \in IndeterminateTimes,
        stop_callback \in IndeterminatePointers}

Init ==
    /\ auth_state \in Created
    /\ pending = <<>>
    /\ now = 0
    /\ last = [op |-> "create", x |-> "", n |-> 0, ret |-> RESULT_OK, pre |-> auth_state,
               outstanding |-> <<>>, calls |-> <<>>, trail |-> <<NONE>>]
    /\ reports = 0
    /\ idled = FALSE

Next ==
    \/ Start
    \/ DoWork
    \/ Stop
    \/ PutTokenComplete
    \/ DeleteTokenComplete
    \/ Tick

Spec == Init /\ [][Next]_vars

\* ------------------------------------------- creation and configuration
\* The AUTHENTICATION_CONFIG a caller may pass: NULL (<<>>), or a structure
\* (<<the structure>>) whose strings are each NULL or given; the X.509
\* certificate and private key come as a pair.
Configs ==
    {<<>>} \cup
    {<<[device_id |-> d, iot_hub_host_fqdn |-> h, device_key |-> k,
        device_sas_token |-> t, x509certificate |-> x,
        x509privatekey |-> IF x = <<>> THEN <<>> ELSE <<"PRIVATE KEY">>]>> :
        d \in {<<>>, <<"dev1">>}, h \in {<<>>, <<"hub.example.net">>},
        k \in {<<>>, <<"KEY">>}, t \in {<<>>, <<"SharedAccessSignature sr=dev1">>},
        x \in {<<>>, <<"CERTIFICATE">>}}

\* No live record: authentication_create has not returned one.
Unallocated ==
    [device_id |-> "", iot_hub_host_fqdn |-> "",
     credential_type |-> CREDENTIAL_TYPE_NONE, deviceKey |-> <<>>, deviceSasToken |-> <<>>,
     sas_token_lifetime |-> 0, sas_token_refresh_time |-> 0, cbs_request_timeout |-> 0,
     cbs_handle |-> NULL, current_sas_token_create_time |-> 0,
     current_sas_token_put_time |-> 0, status |-> NONE,
     on_status_changed_callback |-> NULL, on_stop_completed_callback |-> NULL]

\* The pointers of a block whose fields are all NULL (lines 384-390; the
\* field iot_hub_host_fqdn is not among them: it is left as malloc() gave it).
Block ==
    [auth_state |-> AUTHENTICATION_INSTANCE, device_id |-> "NULL",
     iot_hub_host_fqdn |-> "indeterminate", deviceKey |-> "NULL",
     deviceSasToken |-> "NULL", sasTokenKeyName |-> "NULL"]

\* `if (p != NULL) STRING_delete(p);` for a pointer that is NULL, allocated,
\* or was never assigned.
Deleted(calls, block, field, e) ==
    IF \/ block[field] = "allocated"
       \/ block[field] = "indeterminate" /\ e.indeterminate_pointer # NULL
    THEN Append(calls, Call("STRING_delete", block[field], field, 0))
    ELSE calls

\* Lines 464-479 with cleanup_required true: the releases and the value
\* returned.  With auth_state NULL the first test dereferences NULL: the
\* process is terminated there, or the reads go unnoticed and yield NULL.
cleanup_required(calls, block, e) ==
    IF block.auth_state = NULL
    THEN LET c1 == Append(calls, Call("dereference", "NULL", "auth_state", 0))
         IN  [a |-> Unallocated, result |-> NULL,
              calls |-> IF e.fault
                        THEN Append(c1, Call("terminated", "SIGSEGV", "", 0))
                        ELSE c1]
    ELSE LET c1 == Deleted(calls, block, "deviceKey", e)
             c2 == Deleted(c1, block, "iot_hub_host_fqdn", e)
             c3 == Deleted(c2, block, "deviceSasToken", e)
             c4 == Deleted(c3, block, "sasTokenKeyName", e)
         IN  [a |-> Unallocated, result |-> block.auth_state,
              calls |-> Append(c4, Call("free", "allocated", "auth_state", 0))]

\* An allocation: the call logged, and the pointer it stores.
Allocation(f, field, ok) == Call(f, IF ok THEN "ok" ELSE "failed", field, 0)

Stored(ok) == IF ok THEN "allocated" ELSE "NULL"

\* Lines 410-454: the credential `given` copied into `field`.
create_credential(calls, block, cfg, type, field, given, e) ==
    LET c1 == Append(calls, Allocation("STRING_new", "sasTokenKeyName", e.sasTokenKeyName_ok))
        b1 == [block EXCEPT !.sasTokenKeyName = Stored(e.sasTokenKeyName_ok)]
        c2 == Append(c1, Allocation("STRING_construct", field, e.credential_ok))
        b2 == [b1 EXCEPT ![field] = Stored(e.credential_ok)]
    IN  IF ~e.sasTokenKeyName_ok
        THEN cleanup_required(c1, b1, e)
        ELSE IF ~e.credential_ok
        THEN cleanup_required(c2, b2, e)
        ELSE [a |-> [device_id |-> cfg.device_id[1],
                     iot_hub_host_fqdn |-> cfg.iot_hub_host_fqdn[1],
                     credential_type |-> type,
                     deviceKey |-> IF field = "deviceKey" THEN given ELSE <<>>,
                     deviceSasToken |-> IF field = "deviceSasToken" THEN given ELSE <<>>,
                     sas_token_lifetime |-> e.options.sas_token_lifetime,
                     sas_token_refresh_time |-> e.options.sas_token_refresh_time,
                     cbs_request_timeout |-> e.options.cbs_request_timeout,
                     cbs_handle |-> INDETERMINATE_POINTER,
                     current_sas_token_create_time |-> 0,
                     current_sas_token_put_time |-> e.put_time,
                     status |-> NONE,
                     on_status_changed_callback |-> NULL,
                     on_stop_completed_callback |-> e.stop_callback],
              result |-> block.auth_state,
              calls |-> c2]

\* The record (a), the handle returned (result) and the allocations and
\* releases made (calls).
authentication_create(config, e) ==
    IF Len(config) = 0
    THEN cleanup_required(<<>>, [Block EXCEPT !.auth_state = NULL], e)
    ELSE IF config[1].device_id = <<>> \/ config[1].iot_hub_host_fqdn = <<>>
    THEN cleanup_required(<<>>, [Block EXCEPT !.auth_state = NULL], e)
    ELSE IF ~e.malloc_ok
    THEN cleanup_required(<<Allocation("malloc", "auth_state", FALSE)>>,
                          [Block EXCEPT !.auth_state = NULL], e)
    ELSE LET cfg == config[1]
             c0 == <<Allocation("malloc", "auth_state", TRUE)>>
             c1 == Append(c0, Allocation("STRING_construct", "device_id", e.device_id_ok))
             b1 == [Block EXCEPT !.device_id = Stored(e.device_id_ok)]
             c2 == Append(c1, Allocation("STRING_construct", "iot_hub_host_fqdn",
                                         e.iot_hub_host_fqdn_ok))
             b2 == [b1 EXCEPT !.iot_hub_host_fqdn = Stored(e.iot_hub_host_fqdn_ok)]
         IN  IF ~e.device_id_ok
             THEN cleanup_required(c1, b1, e)
             ELSE IF ~e.iot_hub_host_fqdn_ok
             THEN cleanup_required(c2, b2, e)
             ELSE IF cfg.device_sas_token # <<>>
             THEN create_credential(c2, b2, cfg, CREDENTIAL_TYPE_DEVICE_SAS_TOKEN,
                                    "deviceSasToken", cfg.device_sas_token, e)
             ELSE IF cfg.device_key # <<>>
             THEN create_credential(c2, b2, cfg, CREDENTIAL_TYPE_DEVICE_KEY,
                                    "deviceKey", cfg.device_key, e)
             ELSE cleanup_required(c2, b2, e)

\* `result` is assigned only when the handle or the name is NULL; no option
\* is recognised and none is stored.
authentication_set_option(m, authentication_handle, name, value, e) ==
    IF authentication_handle = NULL
    THEN Returning(m, FAILURE)
    ELSE IF name = <<>>
    THEN Returning(m, FAILURE)
    ELSE Returning(m, e.indeterminate)

\* The outcomes of the allocations of authentication_create, what malloc()
\* left in the fields it never assigns, and the fate of a NULL dereference;
\* an outcome of a step the call does not reach is left at its default.
CreateEnv(config) ==
    LET valid == /\ Len(config) = 1
                 /\ config[1].device_id # <<>>
                 /\ config[1].iot_hub_host_fqdn # <<>>
        credential == valid /\ (config[1].device_sas_token # <<>> \/ config[1].device_key # <<>>)
    IN  {e \in [malloc_ok : BOOLEAN, device_id_ok : BOOLEAN, iot_hub_host_fqdn_ok : BOOLEAN,
                sasTokenKeyName_ok : BOOLEAN, credential_ok : BOOLEAN,
                indeterminate_pointer : IndeterminatePointers, fault : BOOLEAN,
                options : IndeterminateOptions, put_time : IndeterminateTimes,
                stop_callback : IndeterminatePointers] :
            LET allocated == valid /\ e.malloc_ok
                copied == allocated /\ e.device_id_ok /\ e.iot_hub_host_fqdn_ok
                created == copied /\ credential /\ e.sasTokenKeyName_ok /\ e.credential_ok
            IN  /\ ~valid => e.malloc_ok
                /\ ~allocated => e.device_id_ok
                /\ (~allocated \/ ~e.device_id_ok) => e.iot_hub_host_fqdn_ok
                /\ (~copied \/ ~credential) => e.sasTokenKeyName_ok
                /\ (~copied \/ ~credential \/ ~e.sasTokenKeyName_ok) => e.credential_ok
                /\ (~allocated \/ e.device_id_ok) => e.indeterminate_pointer = NULL
                /\ allocated => ~e.fault
                /\ ~created => /\ e.stop_callback = NULL
                               /\ e.options.sas_token_refresh_time = 1000}

CreateWith(config, e) ==
    LET m == authentication_create(config, e)
    IN  /\ auth_state' = m.a
        /\ last' = [op |-> "create", x |-> config, n |-> 0, ret |-> m.result,
                    pre |-> auth_state, outstanding |-> pending, calls |-> m.calls,
                    trail |-> <<m.a.status>>]
        /\ UNCHANGED <<pending, now, reports, idled>>

Create == \E config \in Configs : \E e \in CreateEnv(config) : CreateWith(config, e)

OptionNames == {<<"sas_token_lifetime">>, <<"sas_token_refresh_time">>, <<"cbs_request_timeout">>}

OptionValues == {500, 3000}

\* set_option on the record authentication_create returned, or on NULL.
SetOption ==
    \E authentication_handle \in {NULL, AUTHENTICATION_INSTANCE},
       name \in OptionNames \cup {<<>>, <<"unknown">>},
       value \in OptionValues, indeterminate \in IndeterminateInts :
        /\ auth_state.credential_type # CREDENTIAL_TYPE_NONE
        /\ (authentication_handle = NULL \/ name = <<>>) => indeterminate = RESULT_OK
        /\ Return("set_option", <<name, value>>, authentication_handle,
                  authentication_set_option(Enter, authentication_handle, name, value,
                                            [indeterminate |-> indeterminate]))
        /\ UNCHANGED now

SetupInit ==
    /\ auth_state = Unallocated
    /\ pending = <<>>
    /\ now = 0
    /\ last = [op |-> "none", x |-> <<>>, n |-> 0, ret |-> NULL, pre |-> Unallocated,
               outstanding |-> <<>>, calls |-> <<>>, trail |-> <<NONE>>]
    /\ reports = 0
    /\ idled = FALSE

SetupNext == Create \/ SetOption

SetupSpec == SetupInit /\ [][SetupNext]_vars

\* ------------------------------------------------ the embedding transport
\* The caller the liveness claim assumes: it starts a session only from
\* None or Idle and with a CBS handle, ticks do_work with a readable clock
\* and enough memory, and calls stop whenever it finds the session
\* Authenticated, Failed or FailedTimeout.
LiveStart ==
    /\ auth_state.status \in {NONE, IDLE}
    /\ \E on_status_changed \in {NULL, STATUS_OBSERVER} :
           StartWith(CBS_INSTANCE, on_status_changed)

LiveDoWork ==
    \E e \in DoWorkEnv :
        /\ e.time1 = now /\ e.time2 = now /\ e.path_ok /\ e.token_ok
        /\ DoWorkWith(e)

LiveStop ==
    /\ auth_state.status \in {AUTHENTICATED, FAILED, FAILED_TIMEOUT}
    /\ \E on_stop_completed \in StopObservers, e \in StopEnv :
           /\ e.path_ok
           /\ StopWith(on_stop_completed, e)

\* Where the clock of the model ends before the request timeout can expire,
\* the completion the authenticator is waiting for is delivered.
PutTokenCompleteAtHorizon ==
    /\ now = MaxTime
    /\ auth_state.status = AUTHENTICATING
    /\ PutTokenComplete

LiveNext ==
    \/ LiveStart
    \/ LiveDoWork
    \/ LiveStop
    \/ PutTokenComplete
    \/ DeleteTokenComplete
    \/ Tick

\* do_work is ticked and the clock advances (weak fairness); every
\* delete_token is answered; a put_token is answered or its request timeout
\* expires; stop is called whenever the session is again and again
\* Authenticated, Failed or FailedTimeout (strong fairness).
LiveSpec ==
    /\ Init
    /\ [][LiveNext]_vars
    /\ WF_vars(LiveDoWork)
    /\ WF_vars(Tick)
    /\ WF_vars(DeleteTokenComplete)
    /\ WF_vars(PutTokenCompleteAtHorizon)
    /\ SF_vars(LiveStop)

\* ------------------------------------------------- reading the last call
IsCall == last.op \notin {"create", "tick"}

StatusCalls == SelectSeq(last.calls, LAMBDA c : c.f = "on_status_changed")

StopCalls == SelectSeq(last.calls, LAMBDA c : c.f = "on_stop_completed")

ObserverCalls ==
    SelectSeq(last.calls, LAMBDA c : c.f \in {"on_status_changed", "on_stop_completed"})

Made(f, x) == \E i \in 1..Len(last.calls) : last.calls[i].f = f /\ last.calls[i].x = x

Count(f) == Cardinality({i \in 1..Len(last.calls) : last.calls[i].f = f})

ClockReadable == ~Made("get_time", "failed")

\* The observer slot as update_status found it during the last call: start
\* stores its argument before the transition, stop clears it after.
ObserverDuring ==
    IF last.op = "start"
    THEN auth_state.on_status_changed_callback
    ELSE last.pre.on_status_changed_callback

\* ---------------------------------------------------------------- C1
LegalTransitions ==
    {<<NONE, STARTED>>, <<IDLE, STARTED>>,
     <<STARTED, AUTHENTICATING>>, <<STARTED, FAILED>>,
     <<AUTHENTICATING, AUTHENTICATED>>, <<AUTHENTICATING, FAILED>>,
     <<AUTHENTICATING, FAILED_TIMEOUT>>,
     <<AUTHENTICATED, REFRESHING>>,
     <<REFRESHING, AUTHENTICATING>>, <<REFRESHING, FAILED>>,
     <<AUTHENTICATED, DEAUTHENTICATING>>, <<AUTHENTICATING, DEAUTHENTICATING>>,
     <<DEAUTHENTICATING, IDLE>>, <<DEAUTHENTICATING, FAILED>>,
     <<FAILED, IDLE>>, <<FAILED_TIMEOUT, IDLE>>}

\* C1: every change of status made by any call or completion is one of the
\* 16 legal transitions; in particular start changes the status only from
\* None or Idle.
C1_OnlyLegalTransitions ==
    \A i \in 1..(Len(last.trail) - 1) :
        <<last.trail[i], last.trail[i + 1]>> \in LegalTransitions

\* ---------------------------------------------------------------- C2
\* C2: at every point at most one CBS request (put_token or delete_token)
\* has been dispatched successfully and not yet completed.
C2_AtMostOneOutstanding == Len(pending) <= 1

\* ---------------------------------------------------------------- C3
\* C3: every session for which start succeeded eventually reaches status
\* Idle or Failed (under the fairness of LiveSpec).
C3_StartedReachesIdleOrFailed ==
    [](auth_state.status = STARTED => <>(auth_state.status \in {IDLE, FAILED}))

\* ---------------------------------------------------------------- C4
\* C4 as claimed: a call that changes the status invokes the registered
\* status-change observer exactly once, with (status before the call, status
\* after the call); a call that leaves the status unchanged does not invoke it.
C4_ObserverOncePerCall ==
    (IsCall /\ ObserverDuring # NULL) =>
        IF last.pre.status # auth_state.status
        THEN StatusCalls = <<Call("on_status_changed", last.pre.status, auth_state.status,
                                  ObserverDuring)>>
        ELSE StatusCalls = <<>>

\* C4 as amended: the registered status-change observer is invoked once for
\* each change of status the call makes, in order, each time with the status
\* it replaced and the status it set (so the pairs chain from the status
\* before the call to the status after it); a request to move to the current
\* status, and a call that changes nothing, invoke nothing.
C4_ObserverOncePerChange ==
    IsCall =>
        /\ last.trail[1] = last.pre.status
        /\ last.trail[Len(last.trail)] = auth_state.status
        /\ \A i \in 1..(Len(last.trail) - 1) : last.trail[i] # last.trail[i + 1]
        /\ StatusCalls =
              IF ObserverDuring = NULL
              THEN <<>>
              ELSE [i \in 1..(Len(last.trail) - 1) |->
                       Call("on_status_changed", last.trail[i], last.trail[i + 1],
                            ObserverDuring)]

\* A tick that refreshes: two changes, two notifications.
C4_Witness ==
    /\ last.op = "do_work"
    /\ ObserverDuring # NULL
    /\ last.trail = <<AUTHENTICATED, REFRESHING, AUTHENTICATING>>
    /\ Len(StatusCalls) = 2

\* ---------------------------------------------------------------- C5
\* C5: when the completion of the delete_token dispatched by a stop call is
\* delivered, the on_stop_completed callback passed to that stop call has
\* been invoked exactly once (not zero times, not twice), whatever calls came
\* in between, and after an invocation the slot is empty.
C5_StopCallbackExactlyOnce ==
    /\ (last.op = "on_delete_token_complete" /\ last.n = STOP_OBSERVER) => reports = 1
    /\ (last.op = "on_delete_token_complete" /\ StopCalls # <<>>) =>
           auth_state.on_stop_completed_callback = NULL

\* ---------------------------------------------------------------- C6
\* C6: a delete_token completion that finds status Deauthenticating (and both
\* observers registered) invokes on_stop_completed first and the status
\* observer second: (Success), (Deauthenticating, Idle) for result OK and
\* (Error), (Deauthenticating, Failed) for any other result.
C6_StopObserverFirst ==
    (/\ last.op = "on_delete_token_complete"
     /\ last.pre.status = DEAUTHENTICATING
     /\ last.pre.on_stop_completed_callback # NULL
     /\ last.pre.on_status_changed_callback # NULL) =>
        LET ok == last.x = CBS_OPERATION_RESULT_OK
        IN  ObserverCalls =
              <<Call("on_stop_completed",
                     IF ok THEN DELETE_SAS_TOKEN_RESULT_SUCCESS
                           ELSE DELETE_SAS_TOKEN_RESULT_ERROR,
                     "", last.pre.on_stop_completed_callback),
                Call("on_status_changed", DEAUTHENTICATING,
                     IF ok THEN IDLE ELSE FAILED,
                     last.pre.on_status_changed_callback)>>

C6_Witness ==
    /\ last.op = "on_delete_token_complete"
    /\ last.pre.status = DEAUTHENTICATING
    /\ last.pre.on_stop_completed_callback # NULL
    /\ last.pre.on_status_changed_callback # NULL
    /\ last.x # CBS_OPERATION_RESULT_OK
    /\ auth_state.status = FAILED
    /\ Len(ObserverCalls) = 2

RefreshTick ==
    /\ last.op = "do_work"
    /\ last.pre.status = AUTHENTICATED
    /\ auth_state.credential_type = CREDENTIAL_TYPE_DEVICE_KEY
    /\ ClockReadable

RefreshDue ==
    now - last.pre.current_sas_token_create_time
        >= auth_state.sas_token_refresh_time \div 1000

\* C8 as claimed: on a tick of a DeviceKey authenticator in Authenticated
\* with a readable clock, status leaves Authenticated for Refreshing and, in
\* the same tick, a put_token is dispatched and status moves to
\* Authenticating, if now - create_time >= refresh_time / 1000; on a tick
\* where the difference is smaller nothing is initiated.
C8_RefreshDispatchesOnTheDueTick ==
    RefreshTick =>
        IF RefreshDue
        THEN /\ Len(last.trail) >= 3
             /\ last.trail[2] = REFRESHING
             /\ last.trail[3] = AUTHENTICATING
             /\ Count("cbs_put_token") = 1
        ELSE last.trail = <<AUTHENTICATED>> /\ Count("cbs_put_token") = 0

\* C8 as amended: status leaves Authenticated for Refreshing on exactly the
\* ticks where now - create_time >= refresh_time / 1000; in the same tick a
\* put_token is submitted and status moves to Authenticating (and on to
\* Failed if CBS refuses it), unless the audience string or the SAS token
\* cannot be built: then nothing is submitted and status stays Refreshing.
C8_RefreshOnTheDueTick ==
    RefreshTick =>
        IF RefreshDue
        THEN /\ Len(last.trail) >= 2
             /\ last.trail[2] = REFRESHING
             /\ IF Made("create_devices_path", "failed") \/ Made("SASToken_Create", "failed")
                THEN /\ last.trail = <<AUTHENTICATED, REFRESHING>>
                     /\ Count("cbs_put_token") = 0
                     /\ last.ret # RESULT_OK
                ELSE /\ Count("cbs_put_token") = 1
                     /\ IF Made("cbs_put_token", "accepted")
                        THEN last.trail = <<AUTHENTICATED, REFRESHING, AUTHENTICATING>>
                        ELSE last.trail = <<AUTHENTICATED, REFRESHING, AUTHENTICATING, FAILED>>
        ELSE last.trail = <<AUTHENTICATED>> /\ Count("cbs_put_token") = 0

\* Refresh time 2500 ms: the refresh starts 2 s after the token was created.
C8_Witness ==
    /\ RefreshTick
    /\ auth_state.sas_token_refresh_time = 2500
    /\ now - last.pre.current_sas_token_create_time = 2
    /\ last.trail = <<AUTHENTICATED, REFRESHING, AUTHENTICATING>>
    /\ Made("cbs_put_token", "accepted")

\* ---------------------------------------------------------------- C9
StopToRevoke ==
    /\ last.op = "stop"
    /\ last.pre.status \in {AUTHENTICATED, AUTHENTICATING}

StopDispatched ==
    /\ last.ret = RESULT_OK
    /\ last.trail = <<last.pre.status, DEAUTHENTICATING>>
    /\ auth_state.on_stop_completed_callback = last.n
    /\ Count("cbs_delete_token") = 1
    /\ Made("cbs_delete_token", "accepted")
    /\ StopCalls = <<>>
    /\ last.pre.on_status_changed_callback # NULL =>
          StatusCalls = <<Call("on_status_changed", last.pre.status, DEAUTHENTICATING,
                               last.pre.on_status_changed_callback)>>

StopRefused ==
    /\ last.ret # RESULT_OK
    /\ last.trail = <<last.pre.status, DEAUTHENTICATING, FAILED>>
    /\ auth_state.on_stop_completed_callback = NULL
    /\ Count("cbs_delete_token") = 1
    /\ Made("cbs_delete_token", "refused")
    /\ StopCalls = <<>>
    /\ last.pre.on_status_changed_callback # NULL =>
          StatusCalls = <<Call("on_status_changed", last.pre.status, DEAUTHENTICATING,
                               last.pre.on_status_changed_callback),
                          Call("on_status_changed", DEAUTHENTICATING, FAILED,
                               last.pre.on_status_changed_callback)>>

StopNoAudience ==
    /\ Made("create_devices_path", "failed")
    /\ last.ret # RESULT_OK
    /\ auth_state = last.pre
    /\ Count("cbs_delete_token") = 0
    /\ ObserverCalls = <<>>

\* C9 as claimed: stop in Authenticated or Authenticating records the stop
\* callback, moves to Deauthenticating (observer notified) and dispatches
\* exactly one delete_token, Deauthenticating being observed before any Idle
\* or Failed; if the dispatch fails synchronously stop returns an error,
\* status ends Failed and the slot is cleared, the callback not invoked.
C9_StopDispatchesDelete == StopToRevoke => (StopDispatched \/ StopRefused)

\* C9 as amended: the same, unless the audience string cannot be built: then
\* stop returns an error and changes nothing (no callback recorded, no
\* transition, no delete_token).
C9_StopDispatchesDeleteOrChangesNothing ==
    StopToRevoke => (StopDispatched \/ StopRefused \/ StopNoAudience)

C9_Witness ==
    /\ StopToRevoke
    /\ StopRefused
    /\ last.n # NULL
    /\ last.pre.on_status_changed_callback # NULL

\* ---------------------------------------------------------------- C10
\* C10: stop in FailedTimeout returns ok, moves synchronously to Idle, clears
\* the status observer, dispatches nothing and does not invoke
\* on_stop_completed, exactly as in Failed.
C10_StopFromFailedTimeout ==
    (last.op = "stop" /\ last.pre.status = FAILED_TIMEOUT) =>
        /\ last.ret = RESULT_OK
        /\ auth_state.status = IDLE
        /\ auth_state.on_status_changed_callback = NULL
        /\ Count("cbs_delete_token") = 0
        /\ StopCalls = <<>>

\* ---------------------------------------------------------------- C11
\* C11: stop in Failed returns ok and moves synchronously to Idle; the
\* registered status observer sees (Failed, Idle) exactly once and is then
\* unregistered; no delete_token is dispatched; and the on_stop_completed
\* passed to this stop is invoked neither during the call nor later (it is
\* not recorded: the slot is left as it was).
C11_StopFromFailed ==
    /\ (last.op = "stop" /\ last.pre.status = FAILED) =>
          /\ last.ret = RESULT_OK
          /\ last.trail = <<FAILED, IDLE>>
          /\ auth_state.status = IDLE
          /\ StatusCalls =
                IF last.pre.on_status_changed_callback # NULL
                THEN <<Call("on_status_changed", FAILED, IDLE,
                            last.pre.on_status_changed_callback)>>
                ELSE <<>>
          /\ auth_state.on_status_changed_callback = NULL
          /\ StopCalls = <<>>
          /\ Count("cbs_delete_token") = 0
          /\ auth_state.on_stop_completed_callback = last.pre.on_stop_completed_callback
    /\ idled => reports = 0

C11_Witness ==
    /\ last.op = "stop"
    /\ last.pre.status = FAILED
    /\ last.n = STOP_OBSERVER
    /\ last.pre.on_status_changed_callback = STATUS_OBSERVER
    /\ auth_state.status = IDLE
    /\ pending # <<>>

TickWithoutError ==
    /\ last.op = "do_work"
    /\ ClockReadable
    /\ \/ last.pre.status \in {FAILED, FAILED_TIMEOUT, DEAUTHENTICATING}
       \/ last.pre.status = AUTHENTICATED /\ last.trail = <<AUTHENTICATED>>
       \/ last.pre.status = AUTHENTICATING
       \/ Made("cbs_put_token", "accepted")

\* C13: do_work returns 0 on every tick that met no error, and non-zero
\* only on a tick that failed.
C13_DoWorkReturnsOk == TickWithoutError => last.ret = RESULT_OK

\* ---------------------------------------------------------------- C14
\* C14: do_work in None or Idle returns an error and changes nothing:
\* status, timestamps, observer slots and outstanding CBS requests are as
\* before, no observer is invoked and no CBS request is dispatched.
C14_DoWorkNotStarted ==
    (last.op = "do_work" /\ last.pre.status \in {NONE, IDLE}) =>
        /\ last.ret # RESULT_OK
        /\ auth_state = last.pre
        /\ pending = last.outstanding
        /\ last.trail = <<last.pre.status>>
        /\ last.calls = <<>>

\* A tick after a completed stop, the observer still registered and a
\* put_token still outstanding.
C14_Witness ==
    /\ last.op = "do_work"
    /\ last.pre.status = IDLE
    /\ last.pre.on_status_changed_callback = STATUS_OBSERVER
    /\ last.ret # RESULT_OK
    /\ pending # <<>>

\* ---------------------------------------------------------------- C15
CreateCall == last.op = "create"

ConfigMissing ==
    \/ Len(last.x) = 0
    \/ Len(last.x) = 1 /\ (last.x[1].device_id = <<>> \/ last.x[1].iot_hub_host_fqdn = <<>>)

AllocationFailed == \E i \in 1..Len(last.calls) : last.calls[i].x = "failed"

\* Created is the set of records authentication_create returns for device
\* "dev1" of hub "hub.example.net".
CreatedAsReturned ==
    (CreateCall /\ auth_state # Unallocated) => auth_state \in Created

\* C15: create returns no handle when device_id or host_fqdn is missing,
\* when both device_key and device_sas_token are given, and when neither
\* of them nor an X.509 pair is given; with only an X.509 pair (and every
\* allocation succeeding) it returns a handle of credential type X509.
C15_CreateChecksTheCredentials ==
    CreateCall =>
        IF ConfigMissing
        THEN last.ret = NULL
        ELSE LET cfg == last.x[1]
             IN  /\ (cfg.device_key # <<>> /\ cfg.device_sas_token # <<>>) =>
                        last.ret = NULL
                 /\ (/\ cfg.device_key = <<>>
                     /\ cfg.device_sas_token = <<>>
                     /\ cfg.x509certificate = <<>>) => last.ret = NULL
                 /\ (/\ cfg.device_key = <<>>
                     /\ cfg.device_sas_token = <<>>
                     /\ cfg.x509certificate # <<>>
                     /\ ~AllocationFailed) =>
                        /\ last.ret # NULL
                        /\ auth_state.credential_type = CREDENTIAL_TYPE_X509

\* ---------------------------------------------------------------- C16
Allocated(field) ==
    \E i \in 1..Len(last.calls) :
        /\ last.calls[i].f \in {"malloc", "STRING_construct", "STRING_new"}
        /\ last.calls[i].x = "ok"
        /\ last.calls[i].y = field

Releases(field) ==
    Cardinality({i \in 1..Len(last.calls) :
                    /\ last.calls[i].f \in {"free", "STRING_delete"}
                    /\ last.calls[i].y = field})

\* C16: when create fails, whatever the reason, every allocation made so
\* far (the device_id copy and the state record included) is released
\* exactly once, nothing that was never allocated is released or
\* dereferenced, and the handle returned is NULL.
C16_CreateFailureReleasesAll ==
    (CreateCall /\ auth_state = Unallocated) =>
        /\ \A field \in {"auth_state", "device_id", "iot_hub_host_fqdn", "deviceKey",
                          "deviceSasToken", "sasTokenKeyName"} :
               Releases(field) = IF Allocated(field) THEN 1 ELSE 0
        /\ Count("dereference") = 0
        /\ last.ret = NULL

\* ---------------------------------------------------------------- C17
\* C17: set_option with a non-null handle and one of the three option names
\* returns ok and stores the value in the field of that name; with an
\* unknown name it returns an error and changes no field.
C17_SetOptionStores ==
    (last.op = "set_option" /\ last.n # NULL /\ last.x[1] # <<>>) =>
        IF last.x[1] \in OptionNames
        THEN /\ last.ret = RESULT_OK
             /\ auth_state = [last.pre EXCEPT ![last.x[1][1]] = last.x[2]]
        ELSE /\ last.ret # RESULT_OK
             /\ auth_state = last.pre

\* ---------------------------------------------------------------- C18
\* C18: every put_token and delete_token dispatched carries the audience
\* host_fqdn + "/devices/" + device_id (host first, device id last) and the
\* token type servicebus.windows.net:sastoken, for both credential types;
\* with a device SAS token the token submitted is the string given at
\* create, unchanged.
C18_AudienceTypeAndToken ==
    /\ \A i \in 1..Len(pending) :
          /\ pending[i].audience = <<"hub.example.net", "/devices/", "dev1">>
          /\ pending[i].audience =
                <<auth_state.iot_hub_host_fqdn, "/devices/", auth_state.device_id>>
          /\ pending[i].type = "servicebus.windows.net:sastoken"
          /\ (/\ pending[i].op = "put_token"
              /\ auth_state.credential_type = CREDENTIAL_TYPE_DEVICE_SAS_TOKEN) =>
                 pending[i].token = <<"SharedAccessSignature sr=dev1">>
    /\ \A i \in 1..Len(last.calls) :
          last.calls[i].f \in {"cbs_put_token", "cbs_delete_token"} =>
              last.calls[i].y = "servicebus.windows.net:sastoken"

\* A SAS-token session with a put_token and a delete_token outstanding.
C18_Witness ==
    /\ auth_state.credential_type = CREDENTIAL_TYPE_DEVICE_SAS_TOKEN
    /\ \E i \in 1..Len(pending) : pending[i].op = "put_token"
    /\ \E i \in 1..Len(pending) : pending[i].op = "delete_token"
    /\ last.op = "stop"

\* ---------------------------------------------------------------- C19
\* C19: in every state between operations in which the status is
\* Authenticating or Deauthenticating, exactly one CBS operation is
\* outstanding: never none and never two.
C19_ExactlyOneWhileWaiting ==
    auth_state.status \in {AUTHENTICATING, DEAUTHENTICATING} => Len(pending) = 1

\* ---------------------------------------------------------------- C20
\* C20: in every state between operations the on_stop_completed slot is
\* non-null if and only if a delete_token is outstanding, from create
\* onwards and also when stop was given a null callback.
C20_StopSlotIffDeleteOutstanding ==
    (auth_state.on_stop_completed_callback # NULL)
        <=> (\E i \in 1..Len(pending) : pending[i].op = "delete_token")

\* ---------------------------------------------------------------- C21
\* The last tick ran authenticate_device: it found Started or Refreshing, or
\* found Authenticated and moved to Refreshing.
Authenticates ==
    /\ last.op = "do_work"
    /\ \/ last.pre.status \in {STARTED, REFRESHING}
       \/ Len(last.trail) >= 2 /\ last.trail[2] = REFRESHING

\* The status authenticate_device was entered with.
EntryStatus ==
    IF last.pre.status = AUTHENTICATED THEN REFRESHING ELSE last.pre.status

ClockReads == SelectSeq(last.calls, LAMBDA c : c.f = "get_time")

\* The clock read authenticate_device makes (the last one of the tick) failed.
AuthenticateClockFailed ==
    /\ Authenticates
    /\ ClockReads # <<>>
    /\ ClockReads[Len(ClockReads)].x = "failed"
    /\ Count("create_devices_path") = 0

\* C21: when do_work runs authenticate_device and the clock cannot be read,
\* the status moves to Failed, the observer is notified, no put_token is
\* dispatched and do_work returns an error, for both credential types.
C21_ClockFailureFails ==
    AuthenticateClockFailed =>
        /\ auth_state.status = FAILED
        /\ last.pre.on_status_changed_callback # NULL =>
              /\ StatusCalls # <<>>
              /\ StatusCalls[Len(StatusCalls)].y = FAILED
        /\ Count("cbs_put_token") = 0
        /\ last.ret # RESULT_OK

\* ---------------------------------------------------------------- C22
\* authenticate_device read the clock and then could not build the audience
\* string or (device key) the SAS token.
AuthenticateOutOfMemory ==
    /\ Authenticates
    /\ ClockReads # <<>>
    /\ ClockReads[Len(ClockReads)].x = "ok"
    /\ Made("create_devices_path", "failed") \/ Made("SASToken_Create", "failed")

\* The notifications made inside authenticate_device: all but the one of
\* the move from Authenticated to Refreshing that precedes it.
StatusCallsOfAuthenticate ==
    SelectSeq(StatusCalls, LAMBDA c : ~(c.x = AUTHENTICATED /\ c.y = REFRESHING))

\* C22: when the audience string or (device key) the SAS token cannot be
\* built, the status after the call is the status authenticate_device was
\* entered with, no observer is invoked, no put_token is dispatched, the
\* timestamps are unchanged and an error is returned, for both credential
\* types.
C22_OutOfMemoryChangesNothing ==
    AuthenticateOutOfMemory =>
        /\ auth_state.status = EntryStatus
        /\ StatusCallsOfAuthenticate = <<>>
        /\ StopCalls = <<>>
        /\ Count("cbs_put_token") = 0
        /\ auth_state.current_sas_token_create_time = last.pre.current_sas_token_create_time
        /\ auth_state.current_sas_token_put_time = last.pre.current_sas_token_put_time
        /\ last.ret # RESULT_OK

\* ---------------------------------------------------------------- C23
\* C23: in authenticate_device a put_token refused synchronously ends with
\* status Failed, an error returned, no operation outstanding and
\* current_sas_token_put_time unchanged; an accepted one ends with status
\* Authenticating, authenticate_device returning ok, and
\* current_sas_token_put_time (for a device key also
\* current_sas_token_create_time) equal to the clock value read.
C23_DispatchOutcome ==
    /\ (Authenticates /\ Made("cbs_put_token", "refused")) =>
          /\ auth_state.status = FAILED
          /\ last.ret # RESULT_OK
          /\ pending = <<>>
          /\ auth_state.current_sas_token_put_time = last.pre.current_sas_token_put_time
    /\ (Authenticates /\ Made("cbs_put_token", "accepted")) =>
          /\ auth_state.status = AUTHENTICATING
          /\ auth_state.current_sas_token_put_time = now
          /\ auth_state.credential_type = CREDENTIAL_TYPE_DEVICE_KEY =>
                auth_state.current_sas_token_create_time = now
    /\ auth_state.status \in {STARTED, REFRESHING} =>
          \A e \in DoWorkEnv :
              LET m == authenticate_device(Enter, e)
              IN  (m.pending # pending) => m.result = RESULT_OK

\* ---------------------------------------------------------------- C24
\* C24: a put_token completion delivered in Authenticating makes the status
\* Authenticated if and only if the CBS result is OK, and Failed for every
\* other result, whatever the status code and description; the timestamps
\* are not modified.
C24_PutCompletionByResult ==
    (last.op = "on_put_token_complete" /\ last.pre.status = AUTHENTICATING) =>
        /\ auth_state.status =
              IF last.x = CBS_OPERATION_RESULT_OK THEN AUTHENTICATED ELSE FAILED
        /\ auth_state = [last.pre EXCEPT !.status = auth_state.status]

\* Result OK with status code 401.
C24_Witness ==
    /\ last.op = "on_put_token_complete"
    /\ last.pre.status = AUTHENTICATING
    /\ last.x = CBS_OPERATION_RESULT_OK
    /\ last.n = 401
    /\ auth_state.status = AUTHENTICATED

\* ---------------------------------------------------------------- C25
\* C25: a completion changes the status only when the authenticator is
\* still waiting for it: a put_token completion delivered while the status
\* is not Authenticating, and a delete_token completion delivered while it
\* is not Deauthenticating, leave the status unchanged.
C25_StaleCompletionIgnored ==
    /\ (last.op = "on_put_token_complete" /\ last.pre.status # AUTHENTICATING) =>
          auth_state.status = last.pre.status
    /\ (last.op = "on_delete_token_complete" /\ last.pre.status # DEAUTHENTICATING) =>
          auth_state.status = last.pre.status

\* ---------------------------------------------------------------- C26
\* A tick with nothing to do: in Failed, FailedTimeout or Deauthenticating,
\* or in Authenticated with no refresh due (a device SAS token, or a device
\* key whose token is younger than the refresh time by a readable clock).
IdleTick ==
    /\ last.op = "do_work"
    /\ \/ last.pre.status \in {FAILED, FAILED_TIMEOUT, DEAUTHENTICATING}
       \/ /\ last.pre.status = AUTHENTICATED
          /\ \/ last.pre.credential_type = CREDENTIAL_TYPE_DEVICE_SAS_TOKEN
             \/ ClockReadable /\ ~RefreshDue

\* C26: such a tick takes no action: status, timestamps, both observer
\* slots and the outstanding CBS requests are unchanged, no observer is
\* invoked and no CBS request is dispatched.
C26_IdleTickChangesNothing ==
    IdleTick =>
        /\ auth_state = last.pre
        /\ pending = last.outstanding
        /\ last.trail = <<last.pre.status>>
        /\ ObserverCalls = <<>>
        /\ Count("cbs_put_token") = 0
        /\ Count("cbs_delete_token") = 0

\* A device-key session ticked one second after its token was created, the
\* refresh time being 2500 ms.
C26_Witness ==
    /\ IdleTick
    /\ last.pre.status = AUTHENTICATED
    /\ last.pre.credential_type = CREDENTIAL_TYPE_DEVICE_KEY
    /\ last.pre.on_status_changed_callback = STATUS_OBSERVER
    /\ now - last.pre.current_sas_token_create_time = 1

\* ---------------------------------------------------------------- C27
\* C27: with a device SAS token the status Refreshing is never reached, not
\* even within a call, and after Authenticated is reached no further
\* put_token is dispatched without an intervening start: a put_token is
\* dispatched only by a tick that finds Started, at most one per tick, and
\* Started is entered only by start; however far the clock has advanced.
C27_SasTokenNeverRefreshes ==
    auth_state.credential_type = CREDENTIAL_TYPE_DEVICE_SAS_TOKEN =>
        /\ \A i \in 1..Len(last.trail) : last.trail[i] # REFRESHING
        /\ Count("cbs_put_token") <= 1
        /\ Count("cbs_put_token") = 1 =>
              last.op = "do_work" /\ last.pre.status = STARTED
        /\ (\E i \in 2..Len(last.trail) : last.trail[i] = STARTED) => last.op = "start"
        /\ (last.op = "do_work" /\ last.pre.status = AUTHENTICATED) =>
              /\ auth_state = last.pre
              /\ pending = last.outstanding

\* A SAS-token session ticked in Authenticated at the end of the clock's
\* range, its token put at time 0.
C27_Witness ==
    /\ auth_state.credential_type = CREDENTIAL_TYPE_DEVICE_SAS_TOKEN
    /\ last.op = "do_work"
    /\ last.pre.status = AUTHENTICATED
    /\ now = MaxTime
    /\ auth_state.current_sas_token_put_time = 0
    /\ auth_state.status = AUTHENTICATED
    /\ pending = <<>>

====
